---- MODULE Spec2Model ----
(***************************************************************************)
(* A model of check_littlefs_changes.py: the directory fingerprint          *)
(* (calculate_directory_hash), the state file (save_hash_to_file,           *)
(* load_hash_from_file) and the decision made by main.                      *)
(*                                                                          *)
(* Bytes and characters are their code points (97 is "a", 47 is "/").       *)
(* A name, a file's content, a digest and the text of the state file are    *)
(* all sequences of code points.  A path is a sequence of names, relative   *)
(* to the directory given to the program.                                   *)
(*                                                                          *)
(* The accumulator hash_object is the sequence of bytes fed to it so far;    *)
(* hexdigest is the MD5 digest of that sequence, in lowercase hex.          *)
(***************************************************************************)
EXTENDS Integers, Sequences, FiniteSets, TLC

VARIABLES
    rootKind,   \* what the path given as <directory> is: "dir", "noperm", "file", "missing"
    dirs,       \* the subdirectories below it (a set of paths)
    files,      \* the files below it: path -> [content, fail]
    scan,       \* for each directory, the order in which the filesystem reported
                \* its entries to the last walk
    cur,        \* what the last call of calculate_directory_hash did
                \* on the tree as it is now (NotCalled after a change to the tree)
    prev,       \* what the call before that one did
    edit,       \* the change made to the tree after the call recorded in prev
    loc,        \* the kind of path given as <hash file>
    parent,     \* what os.path.dirname of that path is on disk
    node,       \* what is at that path: "absent", "file" or "dir"
    perm,       \* the permissions of the file at that path: "rw", "r" or "none"
    text,       \* the text of the file at that path
    saveRes,    \* what the last call of save_hash_to_file did
    loadRes,    \* what the last call of load_hash_from_file did
    ran,        \* what the last run of main did (NoRun after a change to the tree)
    ranBefore,  \* what the run before that one did
    nruns       \* the number of runs of main so far

treeVars == <<rootKind, dirs, files>>
hashVars == <<scan, cur, prev, edit>>
diskVars == <<loc, parent, node, perm, text>>
storeVars == <<loc, parent, node, perm, text, saveRes, loadRes>>
mainVars == <<ran, ranBefore, nruns>>
vars == <<rootKind, dirs, files, scan, cur, prev, edit,
          loc, parent, node, perm, text, saveRes, loadRes, ran, ranBefore, nruns>>

----------------------------------------------------------------------------
(* Bounds of the model. *)

MaxNameLen == 1         \* characters in a file or directory name
MaxEntries == 2         \* files and subdirectories in the tree (and so names in a path)
MaxContentLen == 1      \* bytes in a file
SensNameLen == 3        \* characters in a name, where renames are compared
SensEntries == 2        \* files in the tree, where renames are compared
SensContentLen == 1     \* bytes in a file, where renames are compared
ReadNameLen == 1        \* characters in a name, where reads fail
ReadEntries == 2        \* files and subdirectories in the tree, where reads fail
ReadContentLen == 1     \* bytes in a short file, where reads fail
MainNameLen == 1        \* characters in a name, where main is run
MainContentLen == 1     \* bytes in a file, where main is run
MaxRuns == 2            \* runs of main
MaxDigestBytes == 1     \* bytes fed for a digest handed to save_hash_to_file directly
OrderNameLen == 1       \* characters in a name, where report orders are compared
OrderEntries == 4       \* files and subdirectories in the tree, where report orders are compared
OrderContentLen == 1    \* bytes in a file, where report orders are compared

SeqsUpTo(S, n) == UNION {[1..k -> S] : k \in 0..n}

\* The bounds under which the tree is walked, and those under which single
\* edits of a flat tree of readable files are compared.
WalkBounds == [nameLen |-> MaxNameLen, flat |-> FALSE, entries |-> MaxEntries,
               contentLen |-> MaxContentLen, bytes |-> {97}, fails |-> FALSE, big |-> FALSE,
               nameBytes |-> {97, 98}]
SensBounds == [nameLen |-> SensNameLen, flat |-> TRUE, entries |-> SensEntries,
               contentLen |-> SensContentLen, bytes |-> {97}, fails |-> FALSE, big |-> FALSE,
               nameBytes |-> {97, 98}]
OrderBounds == [nameLen |-> OrderNameLen, flat |-> FALSE, entries |-> OrderEntries,
                contentLen |-> OrderContentLen, bytes |-> {97}, fails |-> TRUE, big |-> FALSE,
                nameBytes |-> {97, 98}]
ReadBounds == [nameLen |-> ReadNameLen, flat |-> TRUE, entries |-> ReadEntries,
               contentLen |-> ReadContentLen, bytes |-> {97}, fails |-> TRUE, big |-> TRUE,
               nameBytes |-> {97, 98}]
MainBounds == [nameLen |-> MainNameLen, flat |-> TRUE, entries |-> 1,
               contentLen |-> MainContentLen, bytes |-> {97}, fails |-> TRUE, big |-> FALSE,
               nameBytes |-> {97}]

NamesOf(B) == SeqsUpTo(B.nameBytes, B.nameLen) \ {<<>>}

----------------------------------------------------------------------------
(* Paths. *)

Sep == 47

Parent(p) == SubSeq(p, 1, Len(p) - 1)
Base(p) == p[Len(p)]

\* os.path.join(root, file) followed by os.path.relpath(file_path, directory_path):
\* the names of the path joined by the separator.
RECURSIVE relpath(_)
relpath(p) ==
    IF Len(p) = 1 THEN p[1] ELSE p[1] \o <<Sep>> \o relpath(Tail(p))

----------------------------------------------------------------------------
(* list.sort() on names: the order of str, by code point. *)

str_lt(a, b) ==
    \E i \in 1..(Len(a) + 1) :
        /\ \A j \in 1..(i - 1) : j <= Len(b) /\ a[j] = b[j]
        /\ i <= Len(b)
        /\ (i = Len(a) + 1 \/ a[i] < b[i])

RECURSIVE insort(_, _)
insort(x, s) ==
    IF s = <<>> THEN <<x>>
    ELSE IF str_lt(s[1], x) THEN <<s[1]>> \o insort(x, Tail(s))
    ELSE <<x>> \o s

RECURSIVE sorted_list(_)
sorted_list(s) ==
    IF s = <<>> THEN <<>> ELSE insort(s[1], sorted_list(Tail(s)))

unsorted_list(s) == s

\* dirs.sort() (line 20) and files.sort() (line 21).
dirs_sort(names) == sorted_list(names)

files_sort(names) == sorted_list(names)

----------------------------------------------------------------------------
(* Reading one file (lines 30-35). *)

ChunkSize == 8192

NoFail == [kind |-> "none", at |-> 0]
OpenFails == [kind |-> "open", at |-> 0]
ReadFails(k) == [kind |-> "read", at |-> k]

Min(a, b) == IF a < b THEN a ELSE b

\* The non-empty results of f.read(8192), in order; the read after them
\* returns b'' and ends the loop.
RECURSIVE Chunks(_)
Chunks(content) ==
    IF content = <<>> THEN <<>>
    ELSE LET n == Min(ChunkSize, Len(content))
         IN <<SubSeq(content, 1, n)>> \o Chunks(SubSeq(content, n + 1, Len(content)))

RECURSIVE Concat(_)
Concat(ss) == IF ss = <<>> THEN <<>> ELSE ss[1] \o Concat(Tail(ss))

\* The failures a file of this content can show: open raises, or the k-th
\* call of f.read, which had bytes of the file left to return, raises.
FailsOf(content) ==
    {NoFail, OpenFails} \cup {ReadFails(k) : k \in 1..Len(Chunks(content))}

\* A file one byte longer than a chunk.
TwoChunks == [i \in 1..(ChunkSize + 1) |-> 97]

\* The contents and failures a file may have under bounds B.
ShortContentsOf(B) == SeqsUpTo(B.bytes, B.contentLen)

ContentsOf(B) == ShortContentsOf(B) \cup (IF B.big THEN {TwoChunks} ELSE {})

FailChoices(B, content) == IF B.fails THEN FailsOf(content) ELSE {NoFail}

\* What the try block feeds to the accumulator and whether the except
\* branch printed the warning.  A path that is not a regular file cannot be
\* opened for reading.
read_file(p, fs) ==
    IF p \notin DOMAIN fs \/ fs[p].fail.kind = "open"
    THEN [fed |-> <<>>, warn |-> TRUE]
    ELSE LET cs == Chunks(fs[p].content)
             f == fs[p].fail
         IN IF f.kind = "read" /\ f.at <= Len(cs)
            THEN [fed |-> Concat(SubSeq(cs, 1, f.at - 1)), warn |-> TRUE]
            ELSE [fed |-> Concat(cs), warn |-> FALSE]

\* The body of "for file in files" for one file (lines 24-35).
feed_file(p, r) ==
    [fed |-> relpath(p) \o r.fed, warned |-> IF r.warn THEN <<p>> ELSE <<>>]

hash_file(p, fs) == feed_file(p, read_file(p, fs))

----------------------------------------------------------------------------
(* os.walk (line 18) and the loop over it. *)

\* The entries of directory top, in the order the filesystem reports them:
\* ord gives that order for every directory of the tree.
scandir(top, ord) == ord[top]

BaseNames(s) == [i \in 1..Len(s) |-> Base(s[i])]

\* os.walk's "dirs" and "files" for directory top.
walk_dirs(top, ord, fs, ds) ==
    BaseNames(SelectSeq(scandir(top, ord), LAMBDA e : e \in ds))

all_entries(top, ord, fs, ds) == BaseNames(scandir(top, ord))

walk_files(top, ord, fs, ds) ==
    BaseNames(SelectSeq(scandir(top, ord), LAMBDA e : e \notin ds))

Nothing == [fed |-> <<>>, warned |-> <<>>]

Both(a, b) == [fed |-> a.fed \o b.fed, warned |-> a.warned \o b.warned]

\* "for file in files" over the sorted names (lines 23-35).
RECURSIVE hash_files(_, _, _)
hash_files(top, names, fs) ==
    IF names = <<>> THEN Nothing
    ELSE Both(hash_file(top \o <<names[1]>>, fs), hash_files(top, Tail(names), fs))

\* One directory of the walk: its files in sorted order, then its
\* subdirectories in sorted order (top-down; sorting dirs in place orders
\* the rest of the walk).
RECURSIVE walk(_, _, _, _)
RECURSIVE walk_each(_, _, _, _, _)
walk(top, ord, fs, ds) ==
    Both(hash_files(top, files_sort(walk_files(top, ord, fs, ds)), fs),
         walk_each(top, dirs_sort(walk_dirs(top, ord, fs, ds)), ord, fs, ds))

walk_each(top, names, ord, fs, ds) ==
    IF names = <<>> THEN Nothing
    ELSE Both(walk(top \o <<names[1]>>, ord, fs, ds),
              walk_each(top, Tail(names), ord, fs, ds))

----------------------------------------------------------------------------
(* hashlib.md5 (line 15) and hexdigest (line 37): MD5 as RFC 1321 gives it. *)
(* A 32-bit word is a pair <<high half, low half>> of 16-bit numbers.       *)

\* x & y for two 4-bit numbers: AndNibble[x + 1][y + 1].
AndNibble ==
    <<
    <<0, 0, 0, 0, 0, 0, 0, 0, 0, 0, 0, 0, 0, 0, 0, 0>>,
    <<0, 1, 0, 1, 0, 1, 0, 1, 0, 1, 0, 1, 0, 1, 0, 1>>,
    <<0, 0, 2, 2, 0, 0, 2, 2, 0, 0, 2, 2, 0, 0, 2, 2>>,
    <<0, 1, 2, 3, 0, 1, 2, 3, 0, 1, 2, 3, 0, 1, 2, 3>>,
    <<0, 0, 0, 0, 4, 4, 4, 4, 0, 0, 0, 0, 4, 4, 4, 4>>,
    <<0, 1, 0, 1, 4, 5, 4, 5, 0, 1, 0, 1, 4, 5, 4, 5>>,
    <<0, 0, 2, 2, 4, 4, 6, 6, 0, 0, 2, 2, 4, 4, 6, 6>>,
    <<0, 1, 2, 3, 4, 5, 6, 7, 0, 1, 2, 3, 4, 5, 6, 7>>,
    <<0, 0, 0, 0, 0, 0, 0, 0, 8, 8, 8, 8, 8, 8, 8, 8>>,
    <<0, 1, 0, 1, 0, 1, 0, 1, 8, 9, 8, 9, 8, 9, 8, 9>>,
    <<0, 0, 2, 2, 0, 0, 2, 2, 8, 8, 10, 10, 8, 8, 10, 10>>,
    <<0, 1, 2, 3, 0, 1, 2, 3, 8, 9, 10, 11, 8, 9, 10, 11>>,
    <<0, 0, 0, 0, 4, 4, 4, 4, 8, 8, 8, 8, 12, 12, 12, 12>>,
    <<0, 1, 0, 1, 4, 5, 4, 5, 8, 9, 8, 9, 12, 13, 12, 13>>,
    <<0, 0, 2, 2, 4, 4, 6, 6, 8, 8, 10, 10, 12, 12, 14, 14>>,
    <<0, 1, 2, 3, 4, 5, 6, 7, 8, 9, 10, 11, 12, 13, 14, 15>>
    >>

And8(x, y) ==
    AndNibble[(x \div 16) + 1][(y \div 16) + 1] * 16 + AndNibble[(x % 16) + 1][(y % 16) + 1]

\* x & y for two bytes: AndByte[256 * x + y + 1].
AndByte == <<>> \o [k \in 1..65536 |-> And8((k - 1) \div 256, (k - 1) % 256)]

And16(x, y) ==
    AndByte[256 * (x \div 256) + (y \div 256) + 1] * 256
    + AndByte[256 * (x % 256) + (y % 256) + 1]

WordAnd(a, b) == <<And16(a[1], b[1]), And16(a[2], b[2])>>
WordOr(a, b) == <<a[1] + b[1] - And16(a[1], b[1]), a[2] + b[2] - And16(a[2], b[2])>>
WordXor(a, b) ==
    <<a[1] + b[1] - 2 * And16(a[1], b[1]), a[2] + b[2] - 2 * And16(a[2], b[2])>>
WordNot(a) == <<65535 - a[1], 65535 - a[2]>>

\* Addition modulo 2^32.
WordAdd(a, b) ==
    <<(a[1] + b[1] + (a[2] + b[2]) \div 65536) % 65536, (a[2] + b[2]) % 65536>>

PowersOfTwo ==
    <<1, 2, 4, 8, 16, 32, 64, 128, 256, 512, 1024, 2048, 4096, 8192, 16384, 32768>>

\* Rotation to the left by s bits, 0 <= s < 32.
RotateHalves(h, l, p) ==
    <<((h * p) % 65536) + (l \div (65536 \div p)), ((l * p) % 65536) + (h \div (65536 \div p))>>

WordRotl(a, s) ==
    IF s >= 16 THEN RotateHalves(a[2], a[1], PowersOfTwo[s - 15])
    ELSE RotateHalves(a[1], a[2], PowersOfTwo[s + 1])

\* floor(2^32 * abs(sin(i))) for i = 1..64.
SineTable ==
    <<
    <<55146, 42104>>, <<59591, 46934>>, <<9248, 28891>>, <<49597, 52974>>,
    <<62844, 4015>>, <<18311, 50730>>, <<43056, 17939>>, <<64838, 38145>>,
    <<27008, 39128>>, <<35652, 63407>>, <<65535, 23473>>, <<35164, 55230>>,
    <<27536, 4386>>, <<64920, 29075>>, <<42617, 17294>>, <<18868, 2081>>,
    <<63006, 9570>>, <<49216, 45888>>, <<9822, 23121>>, <<59830, 51114>>,
    <<54831, 4189>>, <<580, 5203>>, <<55457, 59009>>, <<59347, 64456>>,
    <<8673, 52710>>, <<49975, 2006>>, <<62677, 3463>>, <<17754, 5357>>,
    <<43491, 59653>>, <<64751, 41976>>, <<26479, 729>>, <<36138, 19594>>,
    <<65530, 14658>>, <<34673, 63105>>, <<28061, 24866>>, <<64997, 14348>>,
    <<42174, 59972>>, <<19422, 53161>>, <<63163, 19296>>, <<48831, 48240>>,
    <<10395, 32454>>, <<60065, 10234>>, <<54511, 12421>>, <<1160, 7429>>,
    <<55764, 53305>>, <<59099, 39397>>, <<8098, 31992>>, <<50348, 22117>>,
    <<62505, 8772>>, <<17194, 65431>>, <<43924, 9127>>, <<64659, 41017>>,
    <<25947, 22979>>, <<36620, 52370>>, <<65519, 62589>>, <<34180, 24017>>,
    <<28584, 32335>>, <<65068, 59104>>, <<41729, 17172>>, <<19976, 4513>>,
    <<63315, 32386>>, <<48442, 62005>>, <<10967, 53947>>, <<60294, 54161>>
    >>

ShiftTable ==
    << <<7, 12, 17, 22>>, <<5, 9, 14, 20>>, <<4, 11, 16, 23>>, <<6, 10, 15, 21>> >>

\* The message with its padding: a 1 bit, zeros up to 56 modulo 64 bytes,
\* and the length in bits, low byte first (messages here are shorter than
\* 2^28 bytes, so the four high bytes of the length are 0).
md5_pad(m) ==
    m \o <<128>> \o [i \in 1..((55 - Len(m)) % 64) |-> 0]
      \o <<(8 * Len(m)) % 256, ((8 * Len(m)) \div 256) % 256,
           ((8 * Len(m)) \div 65536) % 256, ((8 * Len(m)) \div 16777216) % 256,
           0, 0, 0, 0>>

\* Word g (0..15) of the 64-byte block of p that starts after off bytes.
BlockWord(p, off, g) ==
    <<p[off + 4 * g + 3] + 256 * p[off + 4 * g + 4],
      p[off + 4 * g + 1] + 256 * p[off + 4 * g + 2]>>

\* Step i (0..63) on the state <<a, b, c, d>> of the block at off.
md5_mix(i, b, c, d) ==
    IF i < 16 THEN WordOr(WordAnd(b, c), WordAnd(WordNot(b), d))
    ELSE IF i < 32 THEN WordOr(WordAnd(d, b), WordAnd(WordNot(d), c))
    ELSE IF i < 48 THEN WordXor(b, WordXor(c, d))
    ELSE WordXor(c, WordOr(b, WordNot(d)))

md5_index(i) ==
    IF i < 16 THEN i
    ELSE IF i < 32 THEN (5 * i + 1) % 16
    ELSE IF i < 48 THEN (3 * i + 5) % 16
    ELSE (7 * i) % 16

md5_step(st, p, off, i) ==
    <<st[4],
      WordAdd(st[2],
              WordRotl(WordAdd(WordAdd(WordAdd(st[1], md5_mix(i, st[2], st[3], st[4])),
                                       SineTable[i + 1]),
                               BlockWord(p, off, md5_index(i))),
                       ShiftTable[(i \div 16) + 1][(i % 4) + 1])),
      st[2],
      st[3]>>

\* Steps i .. j-1 in order (i < j): the first half of them, and then the
\* second half on the state the first half gives.
RECURSIVE md5_steps(_, _, _, _, _)
md5_steps(st, p, off, i, j) ==
    IF j = i + 1 THEN md5_step(st, p, off, i)
    ELSE CHOOSE r \in {md5_steps(half, p, off, (i + j) \div 2, j) :
                          half \in {md5_steps(st, p, off, i, (i + j) \div 2)}} : TRUE

md5_add(st, t) ==
    <<WordAdd(st[1], t[1]), WordAdd(st[2], t[2]), WordAdd(st[3], t[3]), WordAdd(st[4], t[4])>>

\* One 64-byte block: the 64 steps, and their result added to the state.
md5_block(st, p, off) == md5_add(st, md5_steps(st, p, off, 0, 64))

\* Blocks m .. n-1 of p in order (m < n), in the same way.
RECURSIVE md5_blocks(_, _, _, _)
md5_blocks(st, p, m, n) ==
    IF n = m + 1 THEN md5_block(st, p, 64 * m)
    ELSE CHOOSE r \in {md5_blocks(half, p, (m + n) \div 2, n) :
                          half \in {md5_blocks(st, p, m, (m + n) \div 2)}} : TRUE

md5_init == << <<26437, 8961>>, <<61389, 43913>>, <<39098, 56574>>, <<4146, 21622>> >>

WordBytes(a) == <<a[2] % 256, a[2] \div 256, a[1] % 256, a[1] \div 256>>

\* The 16 bytes of the digest of the bytes fed.
md5_digest(bytes) ==
    LET st == md5_blocks(md5_init, md5_pad(bytes), 0, Len(md5_pad(bytes)) \div 64)
    IN WordBytes(st[1]) \o WordBytes(st[2]) \o WordBytes(st[3]) \o WordBytes(st[4])

HexDigit(n) == IF n < 10 THEN 48 + n ELSE 87 + n

\* Two lowercase hex digits for each byte.
hex(bytes) ==
    [i \in 1..(2 * Len(bytes)) |->
        IF i % 2 = 1 THEN HexDigit(bytes[(i + 1) \div 2] \div 16)
        ELSE HexDigit(bytes[i \div 2] % 16)]

\* hash_object.hexdigest() once `bytes` have been fed to hash_object.
hexdigest(bytes) == hex(md5_digest(bytes))

\* calculate_directory_hash (lines 13-37).  os.walk reports nothing, and
\* raises nothing, when the top cannot be listed: it is missing, it is not
\* a directory, or it may not be read.
calculate_directory_hash(rk, ord, fs, ds) ==
    LET w == IF rk = "dir" THEN walk(<<>>, ord, fs, ds) ELSE Nothing
    IN [status |-> "returned", fed |-> w.fed, warned |-> w.warned,
        digest |-> hexdigest(w.fed)]

NotCalled == [status |-> "none", fed |-> <<>>, warned |-> <<>>, digest |-> <<>>]

----------------------------------------------------------------------------
(* The state file: json.dump and json.load on the texts of the model. *)

\* A Python value: None, a str or an int (written as its digits).
None == [t |-> "None", s |-> <<>>]
StrVal(s) == [t |-> "str", s |-> s]
IntVal(s) == [t |-> "int", s |-> s]

Quoted(s) == <<34>> \o s \o <<34>>
KeyHash == <<104, 97, 115, 104>>
KeyDigest == <<100, 105, 103, 101, 115, 116>>

\* The pieces json.dump({'hash': hash_value}, f) writes to f, in order:
\* {  "hash"  :_  "<hash_value>"  }   (a digest needs no escaping).
wrong_key_chunks(hash_value) ==
    << <<123>>, Quoted(KeyDigest), <<58, 32>>, Quoted(hash_value), <<125>> >>

dump_chunks(hash_value) ==
    << <<123>>, Quoted(KeyHash), <<58, 32>>, Quoted(hash_value), <<125>> >>

json_dump(hash_value) == Concat(dump_chunks(hash_value))

\* Texts a state file may hold that no run of this program wrote.
TextList == <<91, 93>>                         \* []
TextInt == <<53>>                              \* 5
TextEmptyObject == <<123, 125>>                \* {}
TextNull == <<123>> \o Quoted(KeyHash) \o <<58, 32, 110, 117, 108, 108, 125>>   \* {"hash": null}
TextIntHash == <<123>> \o Quoted(KeyHash) \o <<58, 32, 53, 125>>                \* {"hash": 5}

ObjectOpen(key) == <<123>> \o Quoted(key) \o <<58, 32, 34>>
ObjectClose == <<34, 125>>

\* Whether t is {"<key>": "<string>"} and, if so, the string.
IsStringObject(t, key) ==
    LET n == Len(ObjectOpen(key)) + Len(ObjectClose)
    IN /\ Len(t) >= n
       /\ SubSeq(t, 1, Len(ObjectOpen(key))) = ObjectOpen(key)
       /\ SubSeq(t, Len(t) - Len(ObjectClose) + 1, Len(t)) = ObjectClose
       /\ \A i \in (Len(ObjectOpen(key)) + 1)..(Len(t) - Len(ObjectClose)) :
            t[i] >= 32 /\ t[i] # 34 /\ t[i] # 92

StringOf(t, key) == SubSeq(t, Len(ObjectOpen(key)) + 1, Len(t) - Len(ObjectClose))

\* json.load followed by data.get('hash'), on the texts of the model: the
\* ones above, the objects with one string member, and everything else,
\* which is no JSON document (the empty text and every text cut short).
\*   error: json.JSONDecodeError;  attr: data has no method get.
json_load_get(t) ==
    IF t = TextList \/ t = TextInt THEN [outcome |-> "attr", val |-> None]
    ELSE IF t = TextEmptyObject \/ t = TextNull THEN [outcome |-> "value", val |-> None]
    ELSE IF t = TextIntHash THEN [outcome |-> "value", val |-> IntVal(<<53>>)]
    ELSE IF IsStringObject(t, KeyHash)
         THEN [outcome |-> "value", val |-> StrVal(StringOf(t, KeyHash))]
    ELSE IF IsStringObject(t, KeyDigest) THEN [outcome |-> "value", val |-> None]
    ELSE [outcome |-> "error", val |-> None]

\* load_hash_from_file (lines 55-62), on the disk as given.  Only
\* FileNotFoundError and json.JSONDecodeError are caught.
load_hash_from_file(l, par, nd, pm, txt) ==
    IF l = "empty" \/ par = "missing" THEN [status |-> "returned", val |-> None, exc |-> ""]
    ELSE IF par = "blocked" THEN [status |-> "raised", val |-> None, exc |-> "NotADirectoryError"]
    ELSE IF nd = "absent" THEN [status |-> "returned", val |-> None, exc |-> ""]
    ELSE IF nd = "dir" THEN [status |-> "raised", val |-> None, exc |-> "IsADirectoryError"]
    ELSE IF pm = "none" THEN [status |-> "raised", val |-> None, exc |-> "PermissionError"]
    ELSE LET r == json_load_get(txt)
         IN IF r.outcome = "error" THEN [status |-> "returned", val |-> None, exc |-> ""]
            ELSE IF r.outcome = "attr"
                 THEN [status |-> "raised", val |-> None, exc |-> "AttributeError"]
            ELSE [status |-> "returned", val |-> r.val, exc |-> ""]

NoLoad == [status |-> "none", val |-> None, exc |-> ""]

\* save_hash_to_file (lines 39-53), on the disk as given.  The pieces
\* json.dump writes stay in the buffer of f and reach the disk when f is
\* closed; the disk takes the first `written` bytes of them and then fails,
\* or takes them all.  The result is the value returned and the disk left.
SaveFailed(why, par, nd, pm, txt) ==
    [ret |-> FALSE, why |-> why, parent |-> par, node |-> nd, perm |-> pm, text |-> txt]

save_hash_to_file(hash_value, l, par, nd, pm, txt, written) ==
    LET buffered == Concat(dump_chunks(hash_value))
        made == IF par = "missing" THEN "exists" ELSE par
    IN IF l = "empty" THEN SaveFailed("empty path", par, nd, pm, txt)
       ELSE IF l = "bare" THEN SaveFailed("makedirs", par, nd, pm, txt)
       ELSE IF par = "blocked" THEN SaveFailed("makedirs", par, nd, pm, txt)
       ELSE IF nd = "dir" \/ (nd = "file" /\ pm # "rw")
            THEN SaveFailed("open", made, nd, pm, txt)
       ELSE IF written < Len(buffered)
            THEN SaveFailed("write", made, "file", "rw", SubSeq(buffered, 1, written))
       ELSE [ret |-> TRUE, why |-> "", parent |-> made, node |-> "file", perm |-> "rw",
             text |-> buffered]

NoSave == [status |-> "none", ret |-> FALSE, why |-> "", digest |-> <<>>,
           parentBefore |-> "exists", nodeBefore |-> "absent", permBefore |-> "rw",
           textBefore |-> <<>>]

NoRun == [status |-> "none", exit |-> 0, crashed |-> FALSE, saveTried |-> FALSE,
          saved |-> FALSE, nodeBefore |-> "absent", textBefore |-> <<>>]

----------------------------------------------------------------------------
(* The tree and the changes a user makes to it. *)

Entries(fs, ds) == DOMAIN fs \cup ds

TreeOK(B, fs, ds) ==
    /\ DOMAIN fs \cap ds = {}
    /\ Cardinality(Entries(fs, ds)) <= B.entries
    /\ \A p \in Entries(fs, ds) :
        /\ Len(p) >= 1
        /\ B.flat => Len(p) = 1
        /\ \A i \in 1..Len(p) : p[i] \in NamesOf(B)
        /\ Len(p) > 1 => Parent(p) \in ds

PathsOf(B, ds) ==
    {d \o <<n>> : d \in (IF B.flat THEN {} ELSE ds) \cup {<<>>}, n \in NamesOf(B)}

Perms(S) ==
    {s \in [1..Cardinality(S) -> S] : \A i, j \in 1..Cardinality(S) : s[i] = s[j] => i = j}

\* The entries of directory top.
Children(top, fs, ds) ==
    {e \in Entries(fs, ds) : Len(e) = Len(top) + 1 /\ Parent(e) = top}

\* The orders in which the filesystem may report the tree: any order of
\* its entries for the top directory and for every directory below it.
Orders(fs, ds) ==
    {o \in [ds \cup {<<>>} -> UNION {Perms(Children(d, fs, ds)) : d \in ds \cup {<<>>}}] :
        \A d \in ds \cup {<<>>} : o[d] \in Perms(Children(d, fs, ds))}

EmptyFiles == [p \in {} |-> NoFail]

Put(fs, p, f) == [q \in DOMAIN fs \cup {p} |-> IF q = p THEN f ELSE fs[q]]
Drop(fs, p) == [q \in DOMAIN fs \ {p} |-> fs[q]]


NoEdit == [kind |-> "none", path |-> <<>>]

\* A user changes the tree between two runs of the program.
Edited(kind, p) ==
    /\ rootKind = "dir"
    /\ cur.status = "returned"
    /\ prev' = cur
    /\ edit' = [kind |-> kind, path |-> p]
    /\ cur' = NotCalled
    /\ scan' = <<>>
    /\ ranBefore' = ran
    /\ ran' = NoRun
    /\ UNCHANGED <<rootKind, storeVars, nruns>>

AddFile(B, p, c, f) ==
    /\ p \notin Entries(files, dirs)
    /\ files' = Put(files, p, [content |-> c, fail |-> f])
    /\ dirs' = dirs
    /\ TreeOK(B, files', dirs')
    /\ Edited("add", p)

RemoveFile(p) ==
    /\ p \in DOMAIN files
    /\ files' = Drop(files, p)
    /\ dirs' = dirs
    /\ Edited("remove", p)

RenameFile(B, p, n) ==
    /\ p \in DOMAIN files
    /\ Parent(p) \o <<n>> \notin Entries(files, dirs)
    /\ files' = Put(Drop(files, p), Parent(p) \o <<n>>, files[p])
    /\ dirs' = dirs
    /\ TreeOK(B, files', dirs')
    /\ Edited("rename", Parent(p) \o <<n>>)

ModifyFile(p, c) ==
    /\ p \in DOMAIN files
    /\ c # files[p].content
    /\ files[p].fail \in FailsOf(c)
    /\ files' = [files EXCEPT ![p].content = c]
    /\ dirs' = dirs
    /\ Edited("modify", p)

\* A file becomes unreadable, or readable again; its path and its bytes
\* stay as they are.
SetReadable(p, f) ==
    /\ p \in DOMAIN files
    /\ f # files[p].fail
    /\ f \in FailsOf(files[p].content)
    /\ files' = [files EXCEPT ![p].fail = f]
    /\ dirs' = dirs
    /\ Edited("readability", p)

\* The tree is laid out before the program is first called on it.
SetUp ==
    /\ rootKind = "dir"
    /\ cur.status = "none"
    /\ prev.status = "none"
    /\ UNCHANGED <<rootKind, hashVars, storeVars, mainVars>>

SetUpFile(B, p, c, f) ==
    /\ p \notin Entries(files, dirs)
    /\ files' = Put(files, p, [content |-> c, fail |-> f])
    /\ dirs' = dirs
    /\ TreeOK(B, files', dirs')
    /\ SetUp

SetUpDir(B, p) ==
    /\ p \notin Entries(files, dirs)
    /\ dirs' = dirs \cup {p}
    /\ files' = files
    /\ TreeOK(B, files', dirs')
    /\ SetUp

MkDir(B, p) ==
    /\ p \notin Entries(files, dirs)
    /\ dirs' = dirs \cup {p}
    /\ files' = files
    /\ TreeOK(B, files', dirs')
    /\ Edited("mkdir", p)

RmDir(p) ==
    /\ p \in dirs
    /\ \A q \in Entries(files, dirs) : Len(q) > 1 => Parent(q) # p
    /\ dirs' = dirs \ {p}
    /\ files' = files
    /\ Edited("rmdir", p)

\* The directory itself is made unreadable, or readable again.
ChmodRoot ==
    /\ rootKind \in {"dir", "noperm"}
    /\ cur.status = "returned"
    /\ rootKind' = IF rootKind = "dir" THEN "noperm" ELSE "dir"
    /\ prev' = cur
    /\ edit' = [kind |-> "chmod", path |-> <<>>]
    /\ cur' = NotCalled
    /\ scan' = <<>>
    /\ UNCHANGED <<dirs, files, storeVars, mainVars>>

\* One call of calculate_directory_hash on the tree as it is, the
\* filesystem reporting the entries in any order.
Call ==
    /\ \E ord \in Orders(files, dirs) :
        /\ scan' = ord
        /\ cur' = calculate_directory_hash(rootKind, ord, files, dirs)
    /\ IF cur.status = "returned"
       THEN prev' = cur /\ edit' = NoEdit
       ELSE UNCHANGED <<prev, edit>>
    /\ UNCHANGED <<treeVars, storeVars, mainVars>>

\* The first call on the tree as it is now, and another call on it.
Compute == cur.status = "none" /\ Call

Recompute == cur.status = "returned" /\ Call

NoCalls ==
    /\ scan = <<>>
    /\ cur = NotCalled
    /\ prev = NotCalled
    /\ edit = NoEdit

NoStore ==
    /\ loc = "bare"
    /\ parent = "exists"
    /\ node = "absent"
    /\ perm = "rw"
    /\ text = <<>>
    /\ saveRes = NoSave
    /\ loadRes = NoLoad

NoRuns ==
    /\ ran = NoRun
    /\ ranBefore = NoRun
    /\ nruns = 0

----------------------------------------------------------------------------
(* SpecWalk: the walk of a tree of readable files and directories, and the  *)
(* changes made to it between calls.                                        *)

InitWalk ==
    /\ rootKind = "dir"
    /\ dirs = {}
    /\ files = EmptyFiles
    /\ NoCalls
    /\ NoStore
    /\ NoRuns

NextWalk ==
    \/ Compute
    \/ Recompute
    \/ \E p \in PathsOf(WalkBounds, dirs), c \in ContentsOf(WalkBounds) :
            AddFile(WalkBounds, p, c, NoFail)
    \/ \E p \in DOMAIN files : RemoveFile(p)
    \/ \E p \in PathsOf(WalkBounds, dirs) : MkDir(WalkBounds, p)
    \/ \E p \in dirs : RmDir(p)

SpecWalk == InitWalk /\ [][NextWalk]_vars

\* C10: directories contribute nothing of their own: making or removing an
\* empty subdirectory leaves the digest as it was, and a tree without files
\* feeds no byte at all, so its digest is that of the empty input.
C10_DirsDoNotCount ==
    cur.status = "returned" =>
        /\ (prev.status = "returned" /\ edit.kind \in {"mkdir", "rmdir"}) =>
                cur.fed = prev.fed /\ cur.digest = prev.digest
        /\ files = EmptyFiles => cur.fed = <<>> /\ cur.digest = hexdigest(<<>>)

\* C10's case: an empty directory was made inside another empty directory,
\* the tree holds no file, and the digest was computed before and after.
C10_Witness ==
    /\ cur.status = "returned"
    /\ prev.status = "returned"
    /\ edit.kind = "mkdir"
    /\ Len(edit.path) = 2
    /\ files = EmptyFiles

----------------------------------------------------------------------------
(* SpecOrder: calls on one tree, of files that can or cannot be opened,     *)
(* under every order in which its directories may be reported.              *)

InitOrder ==
    /\ rootKind = "dir"
    /\ dirs = {}
    /\ files = EmptyFiles
    /\ NoCalls
    /\ NoStore
    /\ NoRuns

NextOrder ==
    \/ \E p \in PathsOf(OrderBounds, dirs), c \in ContentsOf(OrderBounds) :
            \E f \in {NoFail, OpenFails} : SetUpFile(OrderBounds, p, c, f)
    \/ \E p \in PathsOf(OrderBounds, dirs) : SetUpDir(OrderBounds, p)
    \/ Compute
    \/ Recompute
    \/ \E p \in DOMAIN files : \E f \in {NoFail, OpenFails} : SetReadable(p, f)

SpecOrder == InitOrder /\ [][NextOrder]_vars

\* Whatever order the last call was given for each directory, every other
\* order feeds the same bytes and gives the same digest.
AnyOrder ==
    \A ord \in Orders(files, dirs) :
        \A other \in {calculate_directory_hash(rootKind, ord, files, dirs)} :
            other.fed = cur.fed /\ other.digest = cur.digest

----------------------------------------------------------------------------
(* SpecSens: single changes to a flat tree of readable files. *)

InitSens ==
    /\ rootKind = "dir"
    /\ dirs = {}
    /\ files = EmptyFiles
    /\ NoCalls
    /\ NoStore
    /\ NoRuns

NextSens ==
    \/ Compute
    \/ \E p \in PathsOf(SensBounds, dirs), c \in ContentsOf(SensBounds) :
            AddFile(SensBounds, p, c, NoFail)
    \/ \E p \in DOMAIN files : RemoveFile(p)
    \/ \E p \in DOMAIN files, n \in NamesOf(SensBounds) : RenameFile(SensBounds, p, n)
    \/ \E p \in DOMAIN files, c \in ContentsOf(SensBounds) : ModifyFile(p, c)

SpecSens == InitSens /\ [][NextSens]_vars

\* C6: adding, removing, renaming or modifying one file changes the bytes
\* fed to the accumulator, and so the digest.
C6_Sensitive ==
    (/\ cur.status = "returned"
     /\ prev.status = "returned"
     /\ edit.kind \in {"add", "remove", "rename", "modify"})
        => cur.fed # prev.fed /\ cur.digest # prev.digest

----------------------------------------------------------------------------
(* SpecRead: the walk when the top or a file cannot be read. *)

\* The directory is empty, or holds one file longer than a chunk.
InitRead ==
    /\ rootKind \in {"dir", "file", "missing"}
    /\ dirs = {}
    /\ files \in {EmptyFiles} \cup
            {Put(EmptyFiles, <<n>>, [content |-> TwoChunks, fail |-> f]) :
                n \in NamesOf(ReadBounds), f \in FailChoices(ReadBounds, TwoChunks)}
    /\ rootKind # "dir" => files = EmptyFiles
    /\ NoCalls
    /\ NoStore
    /\ NoRuns

NextRead ==
    \/ Compute
    \/ \E p \in PathsOf(ReadBounds, dirs), c \in ShortContentsOf(ReadBounds) :
            \E f \in FailChoices(ReadBounds, c) : AddFile(ReadBounds, p, c, f)
    \/ \E p \in DOMAIN files : RemoveFile(p)
    \/ ChmodRoot

SpecRead == InitRead /\ [][NextRead]_vars

\* C7: calculate_directory_hash returns a digest only for a directory that
\* exists and can be read; otherwise it fails with a not-found error.
C7_NotFound ==
    cur.status = "returned" => rootKind = "dir"

InSeq(x, s) == \E i \in 1..Len(s) : s[i] = x

\* The tree with every file that cannot be read in full replaced by an
\* empty file that can.
PathsOnly(fs) ==
    [p \in DOMAIN fs |->
        IF fs[p].fail = NoFail THEN fs[p] ELSE [content |-> <<>>, fail |-> NoFail]]

\* C9: a file that cannot be opened, or whose read fails at any chunk, is
\* warned about and contributes its relative path only, none of its bytes;
\* every other file is fed as usual and a digest is returned.
C9_BestEffort ==
    (cur.status = "returned" /\ rootKind = "dir") =>
        /\ \A p \in DOMAIN files : files[p].fail # NoFail <=> InSeq(p, cur.warned)
        /\ cur.fed = walk(<<>>, scan, PathsOnly(files), dirs).fed
        /\ Len(cur.digest) = 32

----------------------------------------------------------------------------
(* SpecStore: save_hash_to_file and load_hash_from_file on any disk. *)

StoreDigests == {hexdigest(b) : b \in SeqsUpTo({97}, MaxDigestBytes)}

\* The texts a state file may hold before the program first runs.
Texts ==
    {<<>>, TextList, TextInt, TextEmptyObject, TextNull, TextIntHash}
        \cup {json_dump(d) : d \in StoreDigests}

\* The texts it may hold before main first runs: an empty file, a list, a
\* number for a digest, and the digests of trees of the model.
MainTexts ==
    {<<>>, TextList, TextIntHash}
        \cup {json_dump(hexdigest(b)) : b \in SeqsUpTo({97}, MainNameLen)}

\* The disks a path of kind l may be given on, the file holding one of ts.
DiskOK(l, ts) ==
    /\ loc = l
    /\ parent \in IF l = "nested" THEN {"exists", "missing", "blocked"} ELSE {"exists"}
    /\ node \in IF l = "empty" \/ parent # "exists" THEN {"absent"}
                ELSE IF l = "indir" THEN {"absent", "file"}
                ELSE {"absent", "file", "dir"}
    /\ perm \in IF node = "file" /\ l # "indir" THEN {"rw", "r", "none"} ELSE {"rw"}
    /\ text \in IF node = "file" THEN ts ELSE {<<>>}

InitStore ==
    /\ rootKind = "dir"
    /\ dirs = {}
    /\ files = EmptyFiles
    /\ NoCalls
    /\ \E l \in {"empty", "bare", "nested"} : DiskOK(l, Texts)
    /\ saveRes = NoSave
    /\ loadRes = NoLoad
    /\ NoRuns

\* One call of save_hash_to_file; the disk fails after any number of the
\* bytes written, or not at all.
Save(d, written) ==
    \E r \in {save_hash_to_file(d, loc, parent, node, perm, text, written)} :
       /\ parent' = r.parent
       /\ node' = r.node
       /\ perm' = r.perm
       /\ text' = r.text
       /\ saveRes' = [status |-> "returned", ret |-> r.ret, why |-> r.why, digest |-> d,
                      parentBefore |-> parent, nodeBefore |-> node, permBefore |-> perm,
                      textBefore |-> text]
       /\ loadRes' = NoLoad
       /\ UNCHANGED <<loc, treeVars, hashVars, mainVars>>

\* One call of load_hash_from_file.
Load ==
    /\ loadRes' = load_hash_from_file(loc, parent, node, perm, text)
    /\ UNCHANGED <<diskVars, saveRes, treeVars, hashVars, mainVars>>

NextStore ==
    \/ \E d \in StoreDigests : \E written \in 0..Len(json_dump(d)) : Save(d, written)
    \/ Load

SpecStore == InitStore /\ [][NextStore]_vars

\* C3: load_hash_from_file never raises, whatever is at the location.
C3_LoadNeverRaises ==
    loadRes.status # "raised"

\* C4: on a writable filesystem whose writes do not fail, whether the
\* parent directories exist, are missing, or the location is a bare file
\* name, save creates the parents and returns success, and a following load
\* returns the digest saved, whatever text the location held.
C4_RoundTrip ==
    (/\ saveRes.status = "returned"
     /\ loc \in {"bare", "nested"}
     /\ saveRes.parentBefore \in {"exists", "missing"}
     /\ saveRes.nodeBefore \in {"absent", "file"}
     /\ saveRes.permBefore = "rw"
     /\ saveRes.why # "write")
        => /\ saveRes.ret
           /\ parent = "exists"
           /\ loadRes.status # "none" =>
                loadRes.status = "returned" /\ loadRes.val = StrVal(saveRes.digest)

\* C8: after save returns success the location holds the complete new
\* record; when the write fails partway save returns failure and the
\* location holds what it held before, never a truncated or partial text.
C8_AtomicSave ==
    saveRes.status = "returned" =>
        /\ saveRes.ret => node = "file" /\ text = json_dump(saveRes.digest)
        /\ (saveRes.why = "write" /\ saveRes.nodeBefore = "file"
                /\ json_load_get(saveRes.textBefore).val.t = "str") =>
                ~saveRes.ret /\ node = "file" /\ text = saveRes.textBefore

----------------------------------------------------------------------------
(* Spec: runs of main, with changes to the tree between them. *)

\* The name of the state file when it lies in the directory itself.
StateName == <<115>>

\* The files the walk finds: those of the tree and, when the state file
\* lies in the directory, the state file.
SeenFiles(fs, l, nd, pm, txt) ==
    IF l = "indir" /\ nd = "file"
    THEN Put(fs, <<StateName>>,
             [content |-> txt, fail |-> IF pm = "none" THEN OpenFails ELSE NoFail])
    ELSE fs

never_equal(current_hash, previous_hash) == FALSE

\* current_hash == previous_hash (line 98): a str equals only a str of the
\* same characters.
same_hash(current_hash, previous_hash) ==
    previous_hash = StrVal(current_hash)

\* The two places where main saves (lines 87-93 and 105-111): exit status 1
\* when the save succeeds and 2 when it does not.
save_and_exit(h, ld, sv) ==
    [exit |-> IF sv.ret THEN 1 ELSE 2, crashed |-> FALSE, hash |-> h, load |-> ld,
     saveTried |-> TRUE, save |-> sv]

\* main from line 77 on, given what calculate_directory_hash returned and
\* what load_hash_from_file did.  A call that raises ends the run with a
\* traceback and exit status 1.
main_compare(h, ld, l, par, nd, pm, txt, written) ==
    LET kept == [ret |-> FALSE, why |-> "", parent |-> par, node |-> nd, perm |-> pm,
                 text |-> txt]
    IN IF ld.status = "raised"
       THEN [exit |-> 1, crashed |-> TRUE, hash |-> h, load |-> ld,
             saveTried |-> FALSE, save |-> kept]
       ELSE IF ld.val = None
       THEN save_and_exit(h, ld, save_hash_to_file(h.digest, l, par, nd, pm, txt, written))
       ELSE IF same_hash(h.digest, ld.val)
       THEN [exit |-> 0, crashed |-> FALSE, hash |-> h, load |-> ld,
             saveTried |-> FALSE, save |-> kept]
       ELSE save_and_exit(h, ld, save_hash_to_file(h.digest, l, par, nd, pm, txt, written))

\* main (lines 64-111) with two arguments: the exit status and what it did
\* on the way.  h is what calculate_directory_hash returns for the
\* directory (line 78), when main gets that far.
main(rk, h, l, par, nd, pm, txt, written) ==
    IF rk = "missing"
    THEN [exit |-> 1, crashed |-> FALSE, hash |-> NotCalled, load |-> NoLoad,
          saveTried |-> FALSE,
          save |-> [ret |-> FALSE, why |-> "", parent |-> par, node |-> nd, perm |-> pm,
                    text |-> txt]]
    ELSE main_compare(h, load_hash_from_file(l, par, nd, pm, txt),
                      l, par, nd, pm, txt, written)

InitMain ==
    /\ rootKind \in {"dir", "missing"}
    /\ dirs = {}
    /\ files \in {EmptyFiles} \cup
            {Put(EmptyFiles, <<n>>, [content |-> c, fail |-> f]) :
                n \in NamesOf(MainBounds), c \in ContentsOf(MainBounds),
                f \in {NoFail, OpenFails}}
    /\ rootKind = "missing" => files = EmptyFiles
    /\ NoCalls
    /\ \E l \in {"empty", "bare", "nested", "indir"} : DiskOK(l, MainTexts)
    /\ rootKind = "missing" => loc # "indir"
    /\ saveRes = NoSave
    /\ loadRes = NoLoad
    /\ NoRuns

\* One run of main; when it saves, the disk fails after any number of the
\* bytes written, or not at all.
Run ==
    /\ nruns < MaxRuns
    /\ nruns' = nruns + 1
    /\ \E ord \in Orders(SeenFiles(files, loc, node, perm, text), dirs) :
       \E h \in {calculate_directory_hash(rootKind, ord,
                                           SeenFiles(files, loc, node, perm, text), dirs)} :
       \E written \in 0..Len(json_dump(h.digest)) :
       \E m \in {main(rootKind, h, loc, parent, node, perm, text, written)} :
               /\ scan' = ord
               /\ cur' = m.hash
               /\ loadRes' = m.load
               /\ saveRes' = IF m.saveTried
                             THEN [status |-> "returned", ret |-> m.save.ret,
                                   why |-> m.save.why, digest |-> m.hash.digest,
                                   parentBefore |-> parent, nodeBefore |-> node,
                                   permBefore |-> perm, textBefore |-> text]
                             ELSE NoSave
               /\ parent' = m.save.parent
               /\ node' = m.save.node
               /\ perm' = m.save.perm
               /\ text' = m.save.text
               /\ ran' = [status |-> "exited", exit |-> m.exit, crashed |-> m.crashed,
                          saveTried |-> m.saveTried, saved |-> m.save.ret,
                          nodeBefore |-> node, textBefore |-> text]
    /\ IF ran.status = "exited"
       THEN prev' = cur /\ edit' = NoEdit /\ ranBefore' = ran
       ELSE UNCHANGED <<prev, edit, ranBefore>>
    /\ UNCHANGED <<treeVars, loc>>

Next ==
    \/ Run
    \/ \E p \in DOMAIN files, c \in ContentsOf(MainBounds) : ModifyFile(p, c)

Spec == InitMain /\ [][Next]_vars

\* The digest loaded by the last run equals the one it computed.
Unchanged == loadRes.status = "returned" /\ loadRes.val = StrVal(cur.digest)

\* C1: a run on an existing directory exits 0 without writing the state
\* file when the loaded digest equals the current one; otherwise it tries to
\* save and exits 1 with the state file holding the current digest, or exits
\* 2 when the save fails.  Nothing else happens.
C1_ExitCodes ==
    (ran.status = "exited" /\ rootKind # "missing") =>
        \/ /\ Unchanged
           /\ ran.exit = 0
           /\ ~ran.saveTried
           /\ node = ran.nodeBefore
           /\ text = ran.textBefore
        \/ /\ ~Unchanged
           /\ ran.saveTried
           /\ \/ ran.saved /\ ran.exit = 1 /\ node = "file" /\ text = json_dump(cur.digest)
              \/ ~ran.saved /\ ran.exit = 2

TwoRuns == ran.status = "exited" /\ ranBefore.status = "exited"

\* C2, as claimed: wherever the state file is, the run after one that
\* saved and exited 1 exits 0 if the tree was not changed; and once a file
\* is then modified, the next run exits 1 and the state file holds the new
\* digest.
C2_RerunThenModify ==
    /\ (TwoRuns /\ edit.kind = "none" /\ ranBefore.exit = 1 /\ ranBefore.saved) =>
            ran.exit = 0
    /\ (TwoRuns /\ edit.kind = "modify" /\ ranBefore.exit = 0) =>
            ran.exit = 1 /\ node = "file" /\ text = json_dump(cur.digest)

\* C2, amended: for a state file outside the directory, the run after one
\* that saved and exited 1 exits 0 if the tree was not changed; and once a
\* file that can be read is then modified, the next run tries to save the
\* new digest, and exits 1 with the state file holding it, or exits 2
\* because the save failed.
C2_Amended ==
    /\ (TwoRuns /\ edit.kind = "none" /\ ranBefore.exit = 1 /\ ranBefore.saved
            /\ loc # "indir") => ran.exit = 0
    /\ (TwoRuns /\ edit.kind = "modify" /\ ranBefore.exit = 0
            /\ files[edit.path].fail = NoFail) =>
            /\ ran.saveTried
            /\ ran.saved => ran.exit = 1 /\ node = "file" /\ text = json_dump(cur.digest)
            /\ ~ran.saved => ran.exit = 2

\* C2's case: a run exited 0, a readable file was modified, and the next
\* run saved the new digest and exited 1.
C2_Witness ==
    /\ TwoRuns
    /\ edit.kind = "modify"
    /\ ranBefore.exit = 0
    /\ files[edit.path].fail = NoFail
    /\ ran.exit = 1
    /\ ran.saved

====
